---------------------------- MODULE Spec2Model ----------------------------
(***************************************************************************)
(* Model of the question-matching core of bot_telegram.py: text            *)
(* normalization, keyword extraction, similarity scoring, the staged       *)
(* lookup find_answer_from_question and the duplicate-checked insert       *)
(* simpan_soal, over an abstract record store (the BigQuery table).        *)
(*                                                                         *)
(* A Python str is a sequence of characters; a character is a one-symbol   *)
(* string.  A few characters outside ASCII carry a name instead of a       *)
(* glyph: "TAB" (U+0009), "BEL" (U+0007, a control character), "NBSP"      *)
(* (U+00A0), "FW_A" (U+FF21, fullwidth A), "FW_a" (U+FF41, fullwidth a),   *)
(* "e_acute" (U+00E9) and "COMB_ACUTE" (U+0301).                           *)
(* A float score is a binary64 value, see the section on scores.           *)
(***************************************************************************)
EXTENDS Integers, Sequences, FiniteSets, TLC

(***************************************************************************)
(* Character classes (str.isspace / \s, \w, str.isprintable, str.lower,    *)
(* unicodedata.normalize('NFKD', .)).                                      *)
(***************************************************************************)
LowerLetters ==
    {"a", "b", "c", "d", "e", "f", "g", "h", "i", "j", "k", "l", "m", "n", "o",
     "p", "q", "r", "s", "t", "u", "v", "w", "x", "y", "z"}

\* the characters str.lower() changes
UpperLetters ==
    {"A", "B", "C", "D", "E", "F", "G", "H", "I", "J", "K", "L", "M", "N", "O",
     "P", "Q", "R", "S", "T", "U", "V", "W", "X", "Y", "Z", "FW_A"}

Digits == {"0", "1", "2", "3", "4", "5", "6", "7", "8", "9"}

\* str.isspace() and the regex class \s
SpaceChars == {" ", "TAB", "NBSP"}

\* the regex class \w: letters, digits and the underscore
WordChars ==
    LowerLetters \cup UpperLetters \cup Digits \cup {"_", "FW_a", "e_acute"}

\* characters failing str.isprintable(): controls, and every space but " "
NonPrintable == {"BEL", "TAB", "NBSP"}

IsSpace(c) == c \in SpaceChars

IsWord(c) == c \in WordChars

IsPrintable(c) == c \notin NonPrintable

LowerMap ==
    "A" :> "a" @@ "B" :> "b" @@ "C" :> "c" @@ "D" :> "d" @@ "E" :> "e" @@
    "F" :> "f" @@ "G" :> "g" @@ "H" :> "h" @@ "I" :> "i" @@ "J" :> "j" @@
    "K" :> "k" @@ "L" :> "l" @@ "M" :> "m" @@ "N" :> "n" @@ "O" :> "o" @@
    "P" :> "p" @@ "Q" :> "q" @@ "R" :> "r" @@ "S" :> "s" @@ "T" :> "t" @@
    "U" :> "u" @@ "V" :> "v" @@ "W" :> "w" @@ "X" :> "x" @@ "Y" :> "y" @@
    "Z" :> "z" @@ "FW_A" :> "FW_a"

\* str.lower() on one character
LowerChar(c) == IF c \in UpperLetters THEN LowerMap[c] ELSE c

\* NFKD of one character: compatibility and canonical decompositions
NFKDChar(c) ==
    CASE c = "FW_A" -> <<"A">>
      [] c = "FW_a" -> <<"a">>
      [] c = "NBSP" -> <<" ">>
      [] c = "e_acute" -> <<"e", "COMB_ACUTE">>
      [] OTHER -> <<c>>

(***************************************************************************)
(* String helpers.                                                         *)
(***************************************************************************)
RECURSIVE NFKD(_)
\* unicodedata.normalize('NFKD', text)
NFKD(text) ==
    IF text = <<>> THEN <<>> ELSE NFKDChar(Head(text)) \o NFKD(Tail(text))

RECURSIVE LStrip(_)
\* leading half of str.strip()
LStrip(text) ==
    IF text # <<>> /\ IsSpace(Head(text)) THEN LStrip(Tail(text)) ELSE text

RECURSIVE RStrip(_)
\* trailing half of str.strip()
RStrip(text) ==
    IF text # <<>> /\ IsSpace(text[Len(text)])
    THEN RStrip(SubSeq(text, 1, Len(text) - 1))
    ELSE text

\* str.strip()
Strip(text) == RStrip(LStrip(text))

RECURSIVE CollapseSpaces(_)
\* re.sub(r'\s+', ' ', text)
CollapseSpaces(text) ==
    IF text = <<>> THEN <<>>
    ELSE IF IsSpace(Head(text))
         THEN <<" ">> \o CollapseSpaces(LStrip(text))
         ELSE <<Head(text)>> \o CollapseSpaces(Tail(text))

\* str.lower()
Lower(text) == [i \in DOMAIN text |-> LowerChar(text[i])]

\* re.sub(r'[^\w\s]', ' ', text)
PunctToSpace(text) ==
    [i \in DOMAIN text |->
        IF IsWord(text[i]) \/ IsSpace(text[i]) THEN text[i] ELSE " "]

\* whether the regex \bold\b matches text at position i
WordMatchAt(text, old, i) ==
    LET n == Len(old) IN
    /\ i + n - 1 <= Len(text)
    /\ SubSeq(text, i, i + n - 1) = old
    /\ (i = 1 \/ ~IsWord(text[i - 1]))
    /\ (i + n > Len(text) \/ ~IsWord(text[i + n]))

RECURSIVE SubWordFrom(_, _, _, _)
\* re.sub(rf'\b{old}\b', new, text), scanning from position i
SubWordFrom(text, old, new, i) ==
    IF i > Len(text) THEN <<>>
    ELSE IF WordMatchAt(text, old, i)
         THEN new \o SubWordFrom(text, old, new, i + Len(old))
         ELSE <<text[i]>> \o SubWordFrom(text, old, new, i + 1)

RECURSIVE Split(_)
\* str.split(): the maximal runs of non-space characters
Split(text) ==
    LET t == LStrip(text) IN
    IF t = <<>> THEN <<>>
    ELSE LET n == IF \E i \in 1..Len(t) : IsSpace(t[i])
                  THEN (CHOOSE i \in 1..Len(t) :
                           /\ IsSpace(t[i])
                           /\ \A j \in 1..(i - 1) : ~IsSpace(t[j])) - 1
                  ELSE Len(t)
         IN <<SubSeq(t, 1, n)>> \o Split(SubSeq(t, n + 1, Len(t)))

RECURSIVE StripChars(_, _)
\* str.strip(chars)
StripChars(word, chars) ==
    IF word # <<>> /\ Head(word) \in chars THEN StripChars(Tail(word), chars)
    ELSE IF word # <<>> /\ word[Len(word)] \in chars
         THEN StripChars(SubSeq(word, 1, Len(word) - 1), chars)
         ELSE word

\* str.replace(c, '') for each character c of chars
RemoveChars(word, chars) == SelectSeq(word, LAMBDA c : c \notin chars)

\* the elements of a sequence, as a set
Range(s) == {s[i] : i \in DOMAIN s}

(***************************************************************************)
(* Word lists.                                                             *)
(***************************************************************************)
STOPWORDS ==
    { <<"a", "d", "a", "l", "a", "h">>,
      <<"i", "t", "u">>,
      <<"i", "n", "i">>,
      <<"t", "e", "r", "s", "e", "b", "u", "t">>,
      <<"o", "l", "e", "h">>,
      <<"s", "e", "b", "u", "a", "h">>,
      <<"s", "e", "b", "a", "g", "a", "i">>,
      <<"a", "g", "a", "r">>,
      <<"s", "u", "p", "a", "y", "a">>,
      <<"b", "a", "h", "w", "a">>,
      <<"a", "k", "a", "n">>,
      <<"s", "u", "d", "a", "h">>,
      <<"t", "e", "l", "a", "h">>,
      <<"s", "e", "d", "a", "n", "g">> }

IMPORTANT_WORDS ==
    { <<"t", "i", "d", "a", "k">>,
      <<"b", "u", "k", "a", "n">>,
      <<"k", "e", "c", "u", "a", "l", "i">>,
      <<"s", "e", "l", "a", "i", "n">>,
      <<"h", "a", "n", "y", "a">>,
      <<"c", "u", "m", "a">>,
      <<"m", "e", "l", "a", "i", "n", "k", "a", "n">>,
      <<"y", "a", "n", "g">>,
      <<"d", "a", "n">>,
      <<"d", "i">>,
      <<"k", "e">>,
      <<"d", "a", "r", "i">>,
      <<"p", "a", "d", "a">>,
      <<"d", "e", "n", "g", "a", "n">>,
      <<"u", "n", "t", "u", "k">>,
      <<"d", "a", "l", "a", "m">>,
      <<"j", "u", "g", "a">>,
      <<"a", "t", "a", "u">>,
      <<"k", "a", "r", "e", "n", "a">>,
      <<"s", "e", "p", "e", "r", "t", "i">>,
      <<"j", "i", "k", "a">>,
      <<"y", "a">>,
      <<"n", "o">> }

\* the dict of normalize_for_search, in insertion order
replacements ==
    << << <<"g", "i", "m", "a", "n", "a">>,
          <<"b", "a", "g", "a", "i", "m", "a", "n", "a">> >>,
       << <<"k", "e", "n", "a", "p", "a">>,
          <<"m", "e", "n", "g", "a", "p", "a">> >>,
       << <<"k", "a", "p", "a", "n", "k", "a", "h">>,
          <<"k", "a", "p", "a", "n">> >>,
       << <<"s", "i", "a", "p", "a", "k", "a", "h">>,
          <<"s", "i", "a", "p", "a">> >>,
       << <<"a", "p", "a", "k", "a", "h">>,
          <<"a", "p", "a">> >> >>

(***************************************************************************)
(* clean_text, normalize_for_search, extract_keywords.                     *)
(***************************************************************************)
\* clean_text(text)
clean_text(text) ==
    IF text = <<>> \/ Strip(text) = <<>> THEN <<>>
    ELSE Strip(CollapseSpaces(
             SelectSeq(NFKD(text), LAMBDA c : IsPrintable(c) \/ IsSpace(c))))

RECURSIVE ApplyReplacements(_, _)
\* the loop "for old, new in replacements.items()", from entry k on
ApplyReplacements(text, k) ==
    IF k > Len(replacements) THEN text
    ELSE ApplyReplacements(
             SubWordFrom(text, replacements[k][1], replacements[k][2], 1), k + 1)

\* normalize_for_search without the final whitespace normalisation
normalize_for_search_spaces_kept(text) ==
    LET cleaned == clean_text(text) IN
    IF cleaned = <<>> THEN <<>>
    ELSE PunctToSpace(ApplyReplacements(Lower(cleaned), 1))

\* normalize_for_search(text)
normalize_for_search(text) ==
    LET cleaned == clean_text(text) IN
    IF cleaned = <<>> THEN <<>>
    ELSE Strip(CollapseSpaces(PunctToSpace(ApplyReplacements(Lower(cleaned), 1))))

\* the minimum length of a keyword that is not an important word
MinKeywordLen == 2

\* IsKeyword without the stopword filter
IsKeyword_stopwords_kept(word) ==
    \/ word \in IMPORTANT_WORDS
    \/ Len(word) >= MinKeywordLen

\* the test of extract_keywords' loop on one word
IsKeyword(word) ==
    \/ word \in IMPORTANT_WORDS
    \/ (Len(word) >= MinKeywordLen /\ word \notin STOPWORDS)

\* extract_keywords(text)
extract_keywords(text) ==
    LET normalized == normalize_for_search(text) IN
    IF normalized = <<>> THEN <<>>
    ELSE LET words == Split(normalized)
             stripped == [i \in DOMAIN words |->
                             StripChars(words[i], {".", ",", "!", "?", "-"})]
         IN SelectSeq(stripped, IsKeyword)

(***************************************************************************)
(* Scores: Python floats (IEEE 754 binary64, round to nearest, ties to     *)
(* even).  A float x >= 0 is the natural number x * 2^(LimbBits *          *)
(* FracLimbs) written in base LimbBase, least significant limb first,      *)
(* without leading zero limbs (zero is <<0>>).  Each operation computes    *)
(* the exact result and rounds it to MantissaBits significant bits.  The   *)
(* representation is exact for the floats from 2^-45 up, which covers      *)
(* every quotient of two lengths and its products with the weights.        *)
(***************************************************************************)
LimbBits == 14

LimbBase == 2 ^ LimbBits

FracLimbs == 7

\* the significand of a binary64 float
MantissaBits == 53

\* limb i of x, 0 beyond its length
Limb(x, i) == IF i \in DOMAIN x THEN x[i] ELSE 0

RECURSIVE BigNorm(_)
\* x without leading zero limbs
BigNorm(x) ==
    IF Len(x) > 1 /\ x[Len(x)] = 0 THEN BigNorm(SubSeq(x, 1, Len(x) - 1))
    ELSE x

RECURSIVE Propagate(_, _)
\* the limbs of the number with the given column sums, carries propagated
Propagate(cols, carry) ==
    IF cols = <<>>
    THEN IF carry = 0 THEN <<>>
         ELSE <<carry % LimbBase>> \o Propagate(<<>>, carry \div LimbBase)
    ELSE <<(Head(cols) + carry) % LimbBase>>
         \o Propagate(Tail(cols), (Head(cols) + carry) \div LimbBase)

\* x + y, exact
BigAdd(x, y) ==
    BigNorm(Propagate([i \in 1..(IF Len(x) >= Len(y) THEN Len(x) ELSE Len(y))
                          |-> Limb(x, i) + Limb(y, i)], 0))

RECURSIVE ColSum(_, _, _, _)
\* column k of the schoolbook product of x and y, from limb i of x on
ColSum(x, y, k, i) ==
    IF i > Len(x) THEN 0
    ELSE x[i] * Limb(y, k + 1 - i) + ColSum(x, y, k, i + 1)

RECURSIVE LowZeros(_, _)
\* the number of zero limbs at the low end of x, counted from limb i on
LowZeros(x, i) ==
    IF i < Len(x) /\ x[i] = 0 THEN LowZeros(x, i + 1) ELSE i - 1

\* x without its n lowest limbs
DropLow(x, n) == SubSeq(x, n + 1, Len(x))

\* x * y * LimbBase^shift, exact
MulShifted(x, y, shift) ==
    BigNorm([i \in 1..shift |-> 0]
            \o Propagate([k \in 1..(Len(x) + Len(y) - 1)
                              |-> ColSum(x, y, k, 1)], 0))

\* the product of x and y without their nx and ny lowest limbs, which are
\* zero, put back in place
MulTrimmed(x, nx, y, ny) == MulShifted(DropLow(x, nx), DropLow(y, ny), nx + ny)

\* x * y, exact
BigMul(x, y) == MulTrimmed(x, LowZeros(x, 1), y, LowZeros(y, 1))

RECURSIVE BigLtFrom(_, _, _)
\* x < y decided on the limbs from i down, for x and y of the same length
BigLtFrom(x, y, i) ==
    IF i = 0 THEN FALSE
    ELSE IF x[i] # y[i] THEN x[i] < y[i]
    ELSE BigLtFrom(x, y, i - 1)

\* x < y
BigLt(x, y) ==
    IF Len(x) # Len(y) THEN Len(x) < Len(y) ELSE BigLtFrom(x, y, Len(x))

RECURSIVE IntBits(_)
\* the number of bits of a natural
IntBits(n) == IF n = 0 THEN 0 ELSE 1 + IntBits(n \div 2)

\* the number of bits of x
BitLength(x) == LimbBits * (Len(x) - 1) + IntBits(x[Len(x)])

\* bit p of x, bit 0 being the lowest
Bit(x, p) == (Limb(x, p \div LimbBits + 1) \div 2 ^ (p % LimbBits)) % 2

\* the bits of x below bit p are all 0
LowBitsZero(x, p) ==
    /\ \A i \in 1..(p \div LimbBits) : Limb(x, i) = 0
    /\ Limb(x, p \div LimbBits + 1) % 2 ^ (p % LimbBits) = 0

\* x with its q lowest limbs and the r lowest bits of the next cleared
ClearLow(x, q, r) ==
    [i \in DOMAIN x |->
        IF i <= q THEN 0
        ELSE IF i = q + 1 THEN x[i] - (x[i] % 2 ^ r)
        ELSE x[i]]

RECURSIVE AddLimb(_, _, _)
\* x + v * LimbBase^(i - 1), for v < LimbBase
AddLimb(x, i, v) ==
    IF i > Len(x) THEN x \o <<v>>
    ELSE IF x[i] + v < LimbBase
    THEN [j \in DOMAIN x |-> IF j = i THEN x[j] + v ELSE x[j]]
    ELSE AddLimb([j \in DOMAIN x |-> IF j = i THEN x[j] + v - LimbBase
                                     ELSE x[j]],
                 i + 1, 1)

\* x rounded to a multiple of 2^drop, to nearest and ties to even; sticky
\* tells that the exact value has nonzero bits below those of x
RoundAt(x, drop, sticky) ==
    IF Bit(x, drop - 1) = 1
       /\ (sticky \/ ~LowBitsZero(x, drop - 1) \/ Bit(x, drop) = 1)
    THEN AddLimb(ClearLow(x, drop \div LimbBits, drop % LimbBits),
                 drop \div LimbBits + 1, 2 ^ (drop % LimbBits))
    ELSE ClearLow(x, drop \div LimbBits, drop % LimbBits)

\* x rounded to MantissaBits significant bits
Round53(x, sticky) ==
    IF BitLength(x) <= MantissaBits THEN x
    ELSE RoundAt(x, BitLength(x) - MantissaBits, sticky)

RECURSIVE IntLimbs(_)
\* the limbs of a natural
IntLimbs(n) ==
    IF n < LimbBase THEN <<n>>
    ELSE <<n % LimbBase>> \o IntLimbs(n \div LimbBase)

\* the long division so far with one more limb ahead of it
WithLimb(rest, limb) == <<Append(rest[1], limb), rest[2]>>

RECURSIVE FracDigits(_, _, _)
\* k limbs of r / d after the point, for r < d, and the remainder left
FracDigits(r, d, k) ==
    IF k = 0 THEN <<<<>>, r>>
    ELSE WithLimb(FracDigits((r * LimbBase) % d, d, k - 1),
                  (r * LimbBase) \div d)

\* the float nearest to n / d, from the limbs after the point
Quotient(digits, n, d) ==
    Round53(BigNorm(digits[1] \o IntLimbs(n \div d)), digits[2] # 0)

\* n / d on floats holding the naturals n and d, d > 0 (d < 2^17)
FloatDiv(n, d) == Quotient(FracDigits(n % d, d, FracLimbs), n, d)

\* float(n) of a natural
FloatOfInt(n) == BigNorm([i \in 1..FracLimbs |-> 0] \o IntLimbs(n))

\* the product, in units of 2^-(2 * LimbBits * FracLimbs), back in the
\* units of a float
DropFrac(x) ==
    IF Len(x) <= FracLimbs THEN <<0>> ELSE SubSeq(x, FracLimbs + 1, Len(x))

\* a + b on floats
FloatAdd(a, b) ==
    IF b = <<0>> THEN a
    ELSE IF a = <<0>> THEN b
    ELSE Round53(BigAdd(a, b), FALSE)

\* the rounded product of a and b, whose na and nb lowest limbs are zero;
\* with FracLimbs zero limbs or more the product is cut to the units of a
\* float before it is rounded, which loses nothing
MulRounded(a, na, b, nb) ==
    IF na + nb >= FracLimbs
    THEN Round53(MulShifted(DropLow(a, na), DropLow(b, nb),
                            na + nb - FracLimbs), FALSE)
    ELSE DropFrac(Round53(MulTrimmed(a, na, b, nb), FALSE))

\* a * b on floats
FloatMul(a, b) ==
    IF a = <<0>> \/ b = <<0>> THEN <<0>>
    ELSE MulRounded(a, LowZeros(a, 1), b, LowZeros(b, 1))

\* a < b on floats
FloatLt(a, b) == BigLt(a, b)

\* a <= b on floats
FloatLe(a, b) == ~BigLt(b, a)

\* min(a, b) on floats
FloatMin(a, b) == IF BigLt(b, a) THEN b ELSE a

\* the float 0.0 (and the int 0 that best_score starts from)
ScoreZero == <<0>>

\* the float 1.0
ScoreOne == FloatOfInt(1)

(***************************************************************************)
(* difflib.SequenceMatcher(None, a, b).ratio(), autojunk left at its       *)
(* default True and no junk function.  Positions are 1-based and ranges    *)
(* half-open: a[alo..ahi-1], b[blo..bhi-1].                                *)
(***************************************************************************)
\* from this length of b on the autojunk heuristic applies
AutojunkLen == 200

\* SequenceMatcher.bpopular: the elements of b left out of its index, those
\* occurring more than len(b) // 100 + 1 times in a b of 200 elements or more
Popular(b) ==
    IF Len(b) >= AutojunkLen
    THEN {c \in Range(b) :
             Cardinality({j \in DOMAIN b : b[j] = c}) > Len(b) \div 100 + 1}
    ELSE {}

RECURSIVE RunLen(_, _, _, _, _, _, _)
\* length of the longest run of equal elements, all in the index of b,
\* starting at a[i], b[j], inside the ranges
RunLen(a, b, i, j, ahi, bhi, popular) ==
    IF i < ahi /\ j < bhi /\ a[i] = b[j] /\ b[j] \notin popular
    THEN 1 + RunLen(a, b, i + 1, j + 1, ahi, bhi, popular)
    ELSE 0

\* the size of the longest such run inside the ranges (the largest k the
\* loop over j2len reaches)
LongestRun(a, b, alo, ahi, blo, bhi, popular) ==
    LET sizes == {0} \cup {RunLen(a, b, p[1], p[2], ahi, bhi, popular) :
                              p \in (alo..(ahi - 1)) \X (blo..(bhi - 1))}
    IN CHOOSE k \in sizes : \A n \in sizes : n <= k

\* of the runs of the given size, the one starting earliest in a and, of
\* those, earliest in b: <<i, j, size>>
EarliestRun(a, b, alo, ahi, blo, bhi, size, popular) ==
    IF size = 0 THEN <<alo, blo, 0>>
    ELSE LET best == {p \in (alo..(ahi - 1)) \X (blo..(bhi - 1)) :
                         RunLen(a, b, p[1], p[2], ahi, bhi, popular) = size}
             first == CHOOSE p \in best :
                          \A q \in best : p[1] < q[1] \/ (p[1] = q[1] /\ p[2] <= q[2])
         IN <<first[1], first[2], size>>

RECURSIVE ExtendLeft(_, _, _, _, _)
\* the block m grown to the left over equal elements (no element is junk)
ExtendLeft(a, b, alo, blo, m) ==
    IF m[1] > alo /\ m[2] > blo /\ a[m[1] - 1] = b[m[2] - 1]
    THEN ExtendLeft(a, b, alo, blo, <<m[1] - 1, m[2] - 1, m[3] + 1>>)
    ELSE m

RECURSIVE ExtendRight(_, _, _, _, _)
\* the block m grown to the right over equal elements
ExtendRight(a, b, ahi, bhi, m) ==
    IF m[1] + m[3] < ahi /\ m[2] + m[3] < bhi /\ a[m[1] + m[3]] = b[m[2] + m[3]]
    THEN ExtendRight(a, b, ahi, bhi, <<m[1], m[2], m[3] + 1>>)
    ELSE m

\* find_longest_match with the popular elements of b given
LongestMatchWith(a, b, alo, ahi, blo, bhi, popular) ==
    ExtendRight(a, b, ahi, bhi,
        ExtendLeft(a, b, alo, blo,
            EarliestRun(a, b, alo, ahi, blo, bhi,
                        LongestRun(a, b, alo, ahi, blo, bhi, popular),
                        popular)))

\* SequenceMatcher.find_longest_match(alo, ahi, blo, bhi): <<i, j, k>>
find_longest_match(a, b, alo, ahi, blo, bhi) ==
    LongestMatchWith(a, b, alo, ahi, blo, bhi, Popular(b))

RECURSIVE MatchingSize(_, _, _, _, _, _)
RECURSIVE MatchingAround(_, _, _, _, _, _, _)
\* the size of block m plus the matching found left and right of it
MatchingAround(a, b, alo, ahi, blo, bhi, m) ==
    IF m[3] = 0 THEN 0
    ELSE (IF alo < m[1] /\ blo < m[2]
          THEN MatchingSize(a, b, alo, m[1], blo, m[2]) ELSE 0)
         + m[3]
         + (IF m[1] + m[3] < ahi /\ m[2] + m[3] < bhi
            THEN MatchingSize(a, b, m[1] + m[3], ahi, m[2] + m[3], bhi) ELSE 0)

\* SequenceMatcher.get_matching_blocks: the summed sizes of the blocks found by
\* splitting around the longest match, left and right
MatchingSize(a, b, alo, ahi, blo, bhi) ==
    MatchingAround(a, b, alo, ahi, blo, bhi,
                   find_longest_match(a, b, alo, ahi, blo, bhi))

\* SequenceMatcher.ratio(): 2.0 * matches / (len(a) + len(b)), 1.0 if both empty
SequenceRatio(a, b) ==
    IF Len(a) + Len(b) = 0 THEN ScoreOne
    ELSE FloatDiv(2 * MatchingSize(a, b, 1, Len(a) + 1, 1, Len(b) + 1),
                  Len(a) + Len(b))

(***************************************************************************)
(* calculate_text_similarity.                                              *)
(***************************************************************************)
\* min and max of two naturals
Min2(x, y) == IF x <= y THEN x ELSE y

Max2(x, y) == IF x >= y THEN x ELSE y

\* the set the important-word bonus is drawn from (line 210)
BonusWords == {RemoveChars(word, {",", "."}) : word \in IMPORTANT_WORDS}

\* the weights of the combination (line 214) and of a text without words
\* (line 197): the floats 0.2, 0.6, 0.2 and 0.3
SeqWeight == FloatDiv(2, 10)

WordWeight == FloatDiv(6, 10)

LenWeight == FloatDiv(2, 10)

NoWordsWeight == FloatDiv(3, 10)

\* the bonus of one important word in common: the float 0.15
ImportantBonus == FloatDiv(15, 100)

\* steps 3 to 5 of calculate_text_similarity and its weighted combination,
\* from the sequence similarity and the words of the two texts
weighted_score(seq_similarity, words1, words2) ==
    IF words1 = <<>> \/ words2 = <<>>
    THEN FloatMul(seq_similarity, NoWordsWeight)
    ELSE
      LET set1 == Range(words1)
          set2 == Range(words2)
          intersection == Cardinality(set1 \cap set2)
          union == Cardinality(set1 \cup set2)
          word_similarity == IF union > 0 THEN FloatDiv(intersection, union)
                             ELSE ScoreZero
          len_ratio == FloatDiv(Min2(Len(words1), Len(words2)),
                                Max2(Len(words1), Len(words2)))
          important_matches == (set1 \cap set2) \cap BonusWords
          important_bonus ==
              FloatMul(FloatOfInt(Cardinality(important_matches)),
                       ImportantBonus)
      IN FloatMin(FloatAdd(FloatAdd(FloatAdd(FloatMul(seq_similarity, SeqWeight),
                                             FloatMul(word_similarity, WordWeight)),
                                    FloatMul(len_ratio, LenWeight)),
                           important_bonus),
                  ScoreOne)

\* calculate_text_similarity without the test for equal texts
calculate_text_similarity_no_equal_test(text1, text2) ==
    IF text1 = <<>> \/ text2 = <<>> THEN ScoreZero
    ELSE weighted_score(SequenceRatio(text1, text2), Split(text1), Split(text2))

\* calculate_text_similarity(text1, text2)
calculate_text_similarity(text1, text2) ==
    IF text1 = <<>> \/ text2 = <<>> THEN ScoreZero
    ELSE IF text1 = text2 THEN ScoreOne
    ELSE weighted_score(SequenceRatio(text1, text2), Split(text1), Split(text2))

(***************************************************************************)
(* Values returned by the lookup.  A reply is a str; the fixed messages    *)
(* are one-symbol sequences holding the whole message.  None is Python's   *)
(* None.  Raised stands for an exception leaving a function.               *)
(***************************************************************************)
None == <<"None">>

Raised == <<"Raised">>

MSG_UNAVAILABLE == <<"Database tidak tersedia. Silakan coba lagi nanti.">>

MSG_TOO_SHORT ==
    <<"Pertanyaan terlalu pendek. Silakan berikan pertanyaan yang lebih lengkap.">>

MSG_NOT_FOUND ==
    <<"Jawaban tidak ditemukan. Coba reformulasi pertanyaan Anda atau periksa ejaan.">>

MSG_ERROR ==
    <<"Terjadi kesalahan saat mencari jawaban. Silakan coba lagi nanti.">>

\* Python truthiness of an Optional[str]: "if answer:"
Truthy(x) == x # None /\ x # <<>>

\* a reply of the text-message handler: its form ("plain" for a bare
\* sentence, "answer" for the question followed by the success marker and
\* "Jawaban: ", "failure" for the question followed by the failure marker),
\* the question it quotes and the text it carries
Reply(form, question, text) ==
    [form |-> form, question |-> question, text |-> text]

\* no reply sent yet
NoReply == Reply("none", <<>>, <<>>)

(***************************************************************************)
(* The record store: the BigQuery table, a sequence of rows                *)
(* [id, question, question_normalized, answer] in insertion order.  A      *)
(* query either raises (fault) or returns rows; without ORDER BY the rows  *)
(* come in any order.                                                      *)
(***************************************************************************)
\* SQL: text LIKE '%kw%', where _ in kw matches any one character
Like(text, kw) ==
    \E p \in 1..(Len(text) - Len(kw) + 1) :
        \A i \in 1..Len(kw) : kw[i] = "_" \/ text[p + i - 1] = kw[i]

\* every arrangement of the elements of the finite set S as a sequence
Orderings(S) ==
    {f \in [1..Cardinality(S) -> S] : \A i, j \in DOMAIN f : f[i] = f[j] => i = j}

\* the first n elements of a sequence: rows[:n], LIMIT n
Take(rows, n) == SubSeq(rows, 1, Min2(n, Len(rows)))

\* a query that raised
QueryFault == [fault |-> TRUE, rows |-> <<>>]

\* a query that returned rows
QueryRows(rows) == [fault |-> FALSE, rows |-> rows]

\* CountDuplicates with the duplicate looked up in the question column
CountDuplicates_raw_question(tbl, question_normalized) ==
    Cardinality({i \in DOMAIN tbl : tbl[i].question = question_normalized})

\* SELECT COUNT(*) ... WHERE question_normalized = @question_normalized
CountDuplicates(tbl, question_normalized) ==
    Cardinality({i \in DOMAIN tbl : tbl[i].question_normalized = question_normalized})

\* SELECT answer ... WHERE question_normalized = @question_normalized LIMIT 1:
\* what the query may do
ExactOutcomes(tbl, question_normalized) ==
    LET hits == {i \in DOMAIN tbl : tbl[i].question_normalized = question_normalized}
    IN {QueryFault} \cup
       (IF hits = {} THEN {QueryRows(<<>>)}
        ELSE {QueryRows(<<[answer |-> tbl[i].answer]>>) : i \in hits})

\* search_exact_match without its try/except: a query fault leaves it
search_exact_match_uncaught(question_normalized, out) ==
    IF out.fault THEN Raised
    ELSE IF out.rows # <<>> THEN out.rows[1].answer ELSE None

\* search_exact_match(question_normalized), given what its query did
search_exact_match(question_normalized, out) ==
    IF out.fault THEN None
    ELSE IF out.rows # <<>> THEN out.rows[1].answer ELSE None

\* LIMIT of the similarity pre-filter query
SimilarityLimit == 200

\* the number of main keywords the pre-filter uses: main_keywords[:3]
MaxMainKeywords == 3

\* the length from which a keyword is a main keyword
MainKeywordLen == 3

\* the keywords search_with_similarity filters the table with
main_keywords(question_normalized) ==
    LET keywords == extract_keywords(question_normalized)
        long == SelectSeq(keywords, LAMBDA kw : Len(kw) >= MainKeywordLen)
        main == IF long = <<>> THEN Take(keywords, 2) ELSE long
    IN Take(main, MaxMainKeywords)

\* SELECT answer, question_normalized ... WHERE ... LIKE ... OR ... LIMIT 200:
\* what the query may do
SimilarityOutcomes(tbl, kws) ==
    LET hits == {i \in DOMAIN tbl :
                    \E k \in DOMAIN kws : Like(tbl[i].question_normalized, kws[k])}
    IN {QueryFault} \cup
       {QueryRows(Take([n \in DOMAIN ord |->
                           [answer |-> tbl[ord[n]].answer,
                            question_normalized |-> tbl[ord[n]].question_normalized]],
                       SimilarityLimit)) : ord \in Orderings(hits)}

\* similarity_step taking a later row that equals the best score
similarity_step_last_tie(threshold, best, score, answer) ==
    IF FloatLe(best[1], score) /\ FloatLe(threshold, score)
    THEN <<score, answer>>
    ELSE best

\* similarity_step keeping the first row that reaches the threshold
similarity_step_first_clearing(threshold, best, score, answer) ==
    IF best[2] = None /\ FloatLe(threshold, score)
    THEN <<score, answer>>
    ELSE best

\* the body of the loop of search_with_similarity: best is
\* <<best_score, best_match>>
similarity_step(threshold, best, score, answer) ==
    IF FloatLt(best[1], score) /\ FloatLe(threshold, score)
    THEN <<score, answer>>
    ELSE best

RECURSIVE BestSimilarity(_, _, _, _, _)
\* the loop of search_with_similarity over the rows, from row i on
BestSimilarity(question_normalized, threshold, rows, i, best) ==
    IF i > Len(rows) THEN best
    ELSE BestSimilarity(question_normalized, threshold, rows, i + 1,
             similarity_step(threshold, best,
                 calculate_text_similarity(question_normalized,
                                           rows[i].question_normalized),
                 rows[i].answer))

\* search_with_similarity(question_normalized, threshold), given what its
\* query did
search_with_similarity(question_normalized, threshold, out) ==
    IF extract_keywords(question_normalized) = <<>> THEN None
    ELSE IF out.fault THEN None
    ELSE IF out.rows = <<>> THEN None
    ELSE BestSimilarity(question_normalized, threshold, out.rows, 1,
                        <<ScoreZero, None>>)[2]

\* the number of keywords search_with_keywords uses: important_keywords[:5]
MaxSearchKeywords == 5

\* LIMIT of the keyword query
KeywordLimit == 20

\* the number of rows search_with_keywords scores: results[:10]
KeywordTop == 10

\* the score the keyword stage accepts from: 0.4
KeywordThreshold == FloatDiv(4, 10)

\* the keywords search_with_keywords filters and ranks the table with
search_keywords(question_normalized) ==
    LET keywords == extract_keywords(question_normalized)
        long == SelectSeq(keywords, LAMBDA kw : Len(kw) >= MainKeywordLen)
        important_keywords ==
            IF Len(long) < Len(keywords)
            THEN long \o SelectSeq(keywords, LAMBDA kw : Len(kw) = 2)
            ELSE long
    IN Take(important_keywords, MaxSearchKeywords)

\* the keyword_matches column: the number of keywords the text is LIKE
KeywordMatches(text, kws) == Cardinality({k \in DOMAIN kws : Like(text, kws[k])})

\* SELECT answer, question_normalized, (...) as keyword_matches ... WHERE ...
\* ORDER BY keyword_matches DESC LIMIT 20: what the query may do
KeywordOutcomes(tbl, kws) ==
    LET hits == {i \in DOMAIN tbl :
                    KeywordMatches(tbl[i].question_normalized, kws) > 0}
        km(i) == KeywordMatches(tbl[i].question_normalized, kws)
        sorted == {ord \in Orderings(hits) :
                      \A m, n \in DOMAIN ord : m < n => km(ord[m]) >= km(ord[n])}
    IN {QueryFault} \cup
       {QueryRows(Take([n \in DOMAIN ord |->
                           [answer |-> tbl[ord[n]].answer,
                            question_normalized |-> tbl[ord[n]].question_normalized,
                            keyword_matches |-> km(ord[n])]],
                       KeywordLimit)) : ord \in sorted}

\* the bonus of one matched keyword: the float 0.1
KeywordBonus == FloatDiv(1, 10)

\* the test at the end of the loop body of search_with_keywords
keyword_take(best, final_score, answer) ==
    IF FloatLt(best[1], final_score) THEN <<final_score, answer>> ELSE best

\* the body of the loop of search_with_keywords: best is
\* <<best_score, best_match>>
keyword_step(best, score, keyword_matches, answer) ==
    keyword_take(best,
                 FloatAdd(score, FloatMul(FloatOfInt(keyword_matches),
                                          KeywordBonus)),
                 answer)

RECURSIVE BestKeyword(_, _, _, _)
\* the loop of search_with_keywords over results[:10], from row i on
BestKeyword(question_normalized, rows, i, best) ==
    IF i > Len(rows) THEN best
    ELSE BestKeyword(question_normalized, rows, i + 1,
             keyword_step(best,
                 calculate_text_similarity(question_normalized,
                                           rows[i].question_normalized),
                 rows[i].keyword_matches, rows[i].answer))

\* the end of search_with_keywords: the best match if its score reaches
\* the threshold
keyword_accept(best) ==
    IF Truthy(best[2]) /\ FloatLe(KeywordThreshold, best[1]) THEN best[2] ELSE None

\* search_with_keywords(question_normalized, question_types), given what
\* its query did; question_types is not used by the function
search_with_keywords(question_normalized, out) ==
    IF extract_keywords(question_normalized) = <<>> THEN None
    ELSE IF out.fault THEN None
    ELSE IF out.rows = <<>> THEN None
    ELSE keyword_accept(BestKeyword(question_normalized,
                                    Take(out.rows, KeywordTop), 1,
                                    <<ScoreZero, None>>))

(***************************************************************************)
(* Bounds and inputs.                                                      *)
(***************************************************************************)
\* the largest number of rows the table grows to
MaxStore == 2

\* the bot instances sharing the table; instance 1 alone runs under Spec
Workers == {1, 2}

\* the questions callers pass: "ab cd", "Ab  cd?", "cd ab", "ab?", "x??",
\* "x", "???"
Questions ==
    { <<"a", "b", " ", "c", "d">>,
      <<"A", "b", " ", " ", "c", "d", "?">>,
      <<"c", "d", " ", "a", "b">>,
      <<"a", "b", "?">>,
      <<"x", "?", "?">>,
      <<"x">>,
      <<"?", "?", "?">> }

\* the answers callers pass: "p", "q "
Answers == { <<"p">>, <<"q", " ">> }

(***************************************************************************)
(* State.                                                                  *)
(***************************************************************************)
VARIABLES
    bq_client,  \* the module global: "None" or "Client"
    store,      \* the table
    pc,         \* per instance: where its current call stands
    s_args,     \* simpan_soal: <<question, answer>> as passed
    s_norm,     \* simpan_soal: question_normalized
    s_seen,     \* simpan_soal: the table as the duplicate check read it
    s_why,      \* simpan_soal: the return statement taken
    s_ret,      \* simpan_soal: the value returned
    f_arg,      \* find_answer_from_question: question as passed
    f_norm,     \* find_answer_from_question: question_normalized
    f_phase,    \* find_answer_from_question: the phase to run next
    f_log,      \* find_answer_from_question: the phases run so far
    f_ret,      \* find_answer_from_question: the value returned
    saved,      \* the <<question, answer>> pairs simpan_soal returned True for
    t_op,       \* the text function applied to t_a (and t_b), "" before it
    t_a,        \* first argument of the text function
    t_b,        \* second argument of the text function
    t_out,      \* the value the text function returned
    t_calls,    \* the search_with_similarity calls made on their own
    h_pc,       \* cari_jawaban_teks: the await the handler stands at
    h_question, \* cari_jawaban_teks: question, the stripped message text
    h_out,      \* cari_jawaban_teks: the reply it is sending
    h_reply     \* the last reply the text-message handler sent

vars ==
    <<bq_client, store, pc, s_args, s_norm, s_seen, s_why, s_ret,
      f_arg, f_norm, f_phase, f_log, f_ret, saved, t_op, t_a, t_b, t_out,
      t_calls, h_pc, h_question, h_out, h_reply>>

s_vars == <<s_args, s_norm, s_seen, s_why, s_ret>>

f_vars == <<f_arg, f_norm, f_phase, f_log, f_ret>>

h_vars == <<h_pc, h_question, h_out, h_reply>>

t_vars == <<t_op, t_a, t_b, t_out, t_calls, h_vars>>

\* the module as loaded: no client yet, the table as created
Init ==
    /\ bq_client = "None"
    /\ store = <<>>
    /\ pc = [w \in Workers |-> "idle"]
    /\ s_args = [w \in Workers |-> <<>>]
    /\ s_norm = [w \in Workers |-> <<>>]
    /\ s_seen = [w \in Workers |-> <<>>]
    /\ s_why = [w \in Workers |-> ""]
    /\ s_ret = [w \in Workers |-> FALSE]
    /\ f_arg = [w \in Workers |-> <<>>]
    /\ f_norm = [w \in Workers |-> <<>>]
    /\ f_phase = [w \in Workers |-> 0]
    /\ f_log = [w \in Workers |-> <<>>]
    /\ f_ret = [w \in Workers |-> None]
    /\ saved = {}
    /\ t_op = ""
    /\ t_a = <<>>
    /\ t_b = <<>>
    /\ t_out = <<>>
    /\ t_calls = <<>>
    /\ h_pc = "idle"
    /\ h_question = <<>>
    /\ h_out = NoReply
    /\ h_reply = NoReply

(***************************************************************************)
(* initialize_services(): the global bq_client is assigned as soon as the  *)
(* BigQuery client is made, so it stays set when the call raises later, on *)
(* the vision client or on the test query; when making the client raises,  *)
(* the global is left as it was.  The function is synchronous: it runs     *)
(* between the calls of an instance, never inside one.                     *)
(***************************************************************************)
InitializeServices(made) ==
    /\ \A w \in Workers : pc[w] = "idle"
    /\ bq_client' = IF made THEN "Client" ELSE bq_client
    /\ UNCHANGED <<store, pc, s_vars, f_vars, saved, t_vars>>

(***************************************************************************)
(* simpan_soal(question, answer): validation, duplicate check, insert.     *)
(***************************************************************************)
\* the minimum length of a cleaned question simpan_soal accepts
MinSavedQuestionLen == 3

\* the validation of simpan_soal before it touches the table: the reason
\* it returns False, or "" to go on
simpan_validate(question, answer) ==
    LET q == clean_text(question)
        a == clean_text(answer)
    IN IF q = <<>> \/ a = <<>> \/ Len(q) < MinSavedQuestionLen THEN "invalid"
       ELSE IF normalize_for_search(q) = <<>> THEN "empty_normalized"
       ELSE ""

\* simpan_check without the test of the count
simpan_check_no_duplicate(client, tbl, question_normalized, fault) ==
    IF client = "None" \/ fault THEN "exception" ELSE ""

\* the outcome of the duplicate check of simpan_soal: "exception" when the
\* query raised (as it does on a missing client), "duplicate" on a
\* count above 0, or "" to go on to the insert
simpan_check(client, tbl, question_normalized, fault) ==
    IF client = "None" \/ fault THEN "exception"
    ELSE IF CountDuplicates(tbl, question_normalized) > 0 THEN "duplicate"
    ELSE ""

\* simpan_row with question_normalized only lowercased
simpan_row_unnormalized(tbl, question, answer) ==
    [id |-> Len(tbl) + 1,
     question |-> clean_text(question),
     question_normalized |-> Lower(clean_text(question)),
     answer |-> clean_text(answer)]

\* the row simpan_soal inserts; the id is a fresh uuid4
simpan_row(tbl, question, answer) ==
    [id |-> Len(tbl) + 1,
     question |-> clean_text(question),
     question_normalized |-> normalize_for_search(clean_text(question)),
     answer |-> clean_text(answer)]

\* simpan_insert as an atomic insert-if-absent
simpan_insert_if_absent(tbl, row, result) ==
    IF result # "ok" THEN [why |-> result, tbl |-> tbl]
    ELSE IF CountDuplicates(tbl, row.question_normalized) > 0
         THEN [why |-> "duplicate", tbl |-> tbl]
         ELSE [why |-> "saved", tbl |-> Append(tbl, row)]

\* simpan_insert writing the table anew with the row alone
simpan_insert_truncating(tbl, row, result) ==
    IF result = "ok" THEN [why |-> "saved", tbl |-> <<row>>]
    ELSE [why |-> result, tbl |-> tbl]

\* bq_client.insert_json of simpan_soal and what follows it: result is "ok",
\* "errors" (the call returned errors) or "exception" (the call raised);
\* gives the return statement taken and the table after it
simpan_insert(tbl, row, result) ==
    IF result = "ok" THEN [why |-> "saved", tbl |-> Append(tbl, row)]
    ELSE [why |-> result, tbl |-> tbl]

\* a call that returns at once
SimpanFinish(w, why) ==
    /\ pc' = [pc EXCEPT ![w] = "s_done"]
    /\ s_why' = [s_why EXCEPT ![w] = why]
    /\ s_ret' = [s_ret EXCEPT ![w] = (why = "saved")]

SimpanStart(w, question, answer) ==
    /\ pc[w] = "idle"
    /\ Len(store) + Cardinality({v \in Workers : pc[v] \in {"s_check", "s_insert"}})
           < MaxStore
    /\ s_args' = [s_args EXCEPT ![w] = <<question, answer>>]
    /\ LET why == simpan_validate(question, answer) IN
       IF why # ""
       THEN /\ SimpanFinish(w, why)
            /\ UNCHANGED s_norm
       ELSE /\ pc' = [pc EXCEPT ![w] = "s_check"]
            /\ s_norm' = [s_norm EXCEPT
                             ![w] = normalize_for_search(clean_text(question))]
            /\ UNCHANGED <<s_why, s_ret>>
    /\ UNCHANGED <<bq_client, store, s_seen, f_vars, saved, t_vars>>

SimpanCheck(w) ==
    /\ pc[w] = "s_check"
    /\ \E fault \in BOOLEAN :
          LET why == simpan_check(bq_client, store, s_norm[w], fault) IN
          IF why # ""
          THEN SimpanFinish(w, why)
          ELSE /\ pc' = [pc EXCEPT ![w] = "s_insert"]
               /\ UNCHANGED <<s_why, s_ret>>
    /\ s_seen' = [s_seen EXCEPT ![w] = store]
    /\ UNCHANGED <<bq_client, store, s_args, s_norm, f_vars, saved, t_vars>>

SimpanInsert(w) ==
    /\ pc[w] = "s_insert"
    /\ \E result \in {"ok", "errors", "exception"} :
          LET done == simpan_insert(store,
                                    simpan_row(store, s_args[w][1], s_args[w][2]),
                                    result)
          IN /\ store' = done.tbl
             /\ SimpanFinish(w, done.why)
             /\ saved' = IF done.why = "saved" THEN saved \cup {s_args[w]}
                         ELSE saved
    /\ UNCHANGED <<bq_client, s_args, s_norm, s_seen, f_vars, t_vars>>

SimpanReturn(w) ==
    /\ pc[w] = "s_done"
    /\ pc' = [pc EXCEPT ![w] = "idle"]
    /\ s_args' = [s_args EXCEPT ![w] = <<>>]
    /\ s_norm' = [s_norm EXCEPT ![w] = <<>>]
    /\ s_seen' = [s_seen EXCEPT ![w] = <<>>]
    /\ s_why' = [s_why EXCEPT ![w] = ""]
    /\ s_ret' = [s_ret EXCEPT ![w] = FALSE]
    /\ UNCHANGED <<bq_client, store, f_vars, saved, t_vars>>

(***************************************************************************)
(* find_answer_from_question(question): the precondition checks, then the  *)
(* phases in turn, each a search function with its own try/except.         *)
(***************************************************************************)
\* the minimum length of a cleaned question find_answer_from_question
\* looks up
MinQuestionLen == 2

\* CASCADE with the keyword phase ahead of the first similarity phase
CASCADE_keyword_first ==
    << [kind |-> "exact", threshold |-> ScoreOne],
       [kind |-> "keyword", threshold |-> KeywordThreshold],
       [kind |-> "similarity", threshold |-> FloatDiv(7, 10)],
       [kind |-> "similarity", threshold |-> FloatDiv(5, 10)] >>

\* the phases of find_answer_from_question, in the order of its statements,
\* each with the threshold its search function applies (an exact match has
\* none: 1.0 stands for equality)
CASCADE ==
    << [kind |-> "exact", threshold |-> ScoreOne],
       [kind |-> "similarity", threshold |-> FloatDiv(7, 10)],
       [kind |-> "keyword", threshold |-> KeywordThreshold],
       [kind |-> "similarity", threshold |-> FloatDiv(5, 10)] >>

\* find_precheck with the length check ahead of the client check
find_precheck_length_first(client, question) ==
    IF Len(clean_text(question)) < MinQuestionLen THEN MSG_TOO_SHORT
    ELSE IF client = "None" THEN MSG_UNAVAILABLE
    ELSE None

\* the checks of find_answer_from_question before the first phase: the
\* message returned at once, or None to go on
find_precheck(client, question) ==
    IF client = "None" THEN MSG_UNAVAILABLE
    ELSE IF Len(clean_text(question)) < MinQuestionLen THEN MSG_TOO_SHORT
    ELSE None

\* find_after_phase returning an empty reply when the last phase gave nothing
find_after_phase_empty_reply(phase, answer) ==
    IF answer = Raised THEN MSG_ERROR
    ELSE IF Truthy(answer) THEN answer
    ELSE IF phase = Len(CASCADE) THEN <<>>
    ELSE None

\* what find_answer_from_question does with the value the search function
\* of phase number phase gave: the value returned, or None to go on to the
\* next phase; an exception is caught by the function's own except clause
find_after_phase(phase, answer) ==
    IF answer = Raised THEN MSG_ERROR
    ELSE IF Truthy(answer) THEN answer
    ELSE IF phase = Len(CASCADE) THEN MSG_NOT_FOUND
    ELSE None

\* the entry f_log keeps of a phase: whether it issued its query, whether
\* the query raised, whether the phase gave an answer
PhaseEntry(phase, queried, out, answer) ==
    [kind |-> CASCADE[phase].kind,
     threshold |-> CASCADE[phase].threshold,
     queried |-> queried,
     fault |-> queried /\ out.fault,
     hit |-> Truthy(answer) /\ answer # Raised]

\* the entry of find_answer_from_question up to its first query: the
\* precondition checks and the normalization
FindEnter(w, question) ==
    /\ pc[w] = "idle"
    /\ f_arg' = [f_arg EXCEPT ![w] = question]
    /\ LET early == find_precheck(bq_client, question) IN
       IF early # None
       THEN /\ pc' = [pc EXCEPT ![w] = "f_done"]
            /\ f_ret' = [f_ret EXCEPT ![w] = early]
            /\ UNCHANGED <<f_norm, f_phase>>
       ELSE /\ pc' = [pc EXCEPT ![w] = "f_phase"]
            /\ f_norm' = [f_norm EXCEPT
                             ![w] = normalize_for_search(clean_text(question))]
            /\ f_phase' = [f_phase EXCEPT ![w] = 1]
            /\ UNCHANGED f_ret
    /\ UNCHANGED <<bq_client, store, s_vars, f_log, saved>>

\* a call find_answer_from_question(question) made on its own
FindStart(w, question) ==
    /\ FindEnter(w, question)
    /\ UNCHANGED t_vars

\* the end of a phase: return, or go on to the next phase
FindAfter(w, queried, out, answer) ==
    LET ret == find_after_phase(f_phase[w], answer) IN
    /\ f_log' = [f_log EXCEPT
                    ![w] = Append(@, PhaseEntry(f_phase[w], queried, out, answer))]
    /\ IF ret # None
       THEN /\ pc' = [pc EXCEPT ![w] = "f_done"]
            /\ f_ret' = [f_ret EXCEPT ![w] = ret]
            /\ UNCHANGED f_phase
       ELSE /\ f_phase' = [f_phase EXCEPT ![w] = @ + 1]
            /\ UNCHANGED <<pc, f_ret>>
    /\ UNCHANGED <<bq_client, store, s_vars, f_arg, f_norm, saved, t_vars>>

FindExact(w) ==
    /\ pc[w] = "f_phase"
    /\ CASCADE[f_phase[w]].kind = "exact"
    /\ \E out \in ExactOutcomes(store, f_norm[w]) :
          FindAfter(w, TRUE, out, search_exact_match(f_norm[w], out))

FindSimilarity(w) ==
    /\ pc[w] = "f_phase"
    /\ CASCADE[f_phase[w]].kind = "similarity"
    /\ LET kws == main_keywords(f_norm[w]) IN
       \E out \in IF kws = <<>> THEN {QueryRows(<<>>)}
                  ELSE SimilarityOutcomes(store, kws) :
          FindAfter(w, kws # <<>>, out,
                    search_with_similarity(f_norm[w],
                                           CASCADE[f_phase[w]].threshold, out))

FindKeyword(w) ==
    /\ pc[w] = "f_phase"
    /\ CASCADE[f_phase[w]].kind = "keyword"
    /\ LET kws == search_keywords(f_norm[w]) IN
       \E out \in IF kws = <<>> THEN {QueryRows(<<>>)}
                  ELSE KeywordOutcomes(store, kws) :
          FindAfter(w, kws # <<>>, out, search_with_keywords(f_norm[w], out))

FindReturn(w) ==
    /\ pc[w] = "f_done"
    /\ pc' = [pc EXCEPT ![w] = "idle"]
    /\ f_arg' = [f_arg EXCEPT ![w] = <<>>]
    /\ f_norm' = [f_norm EXCEPT ![w] = <<>>]
    /\ f_phase' = [f_phase EXCEPT ![w] = 0]
    /\ f_log' = [f_log EXCEPT ![w] = <<>>]
    /\ f_ret' = [f_ret EXCEPT ![w] = None]
    /\ UNCHANGED <<bq_client, store, s_vars, saved, t_vars>>

(***************************************************************************)
(* Specifications.  Spec: one bot instance, whose handlers run one call at *)
(* a time to completion.  SpecRace: two instances writing to the same      *)
(* table, their simpan_soal calls interleaved at the table operations.     *)
(***************************************************************************)
Next ==
    \/ \E made \in BOOLEAN : InitializeServices(made)
    \/ \E q \in Questions, a \in Answers : SimpanStart(1, q, a)
    \/ SimpanCheck(1)
    \/ SimpanInsert(1)
    \/ SimpanReturn(1)
    \/ \E q \in Questions : FindStart(1, q)
    \/ FindExact(1)
    \/ FindSimilarity(1)
    \/ FindKeyword(1)
    \/ FindReturn(1)

Spec == Init /\ [][Next]_vars

NextRace ==
    \/ \E made \in BOOLEAN : InitializeServices(made)
    \/ \E w \in Workers :
          \/ \E q \in Questions, a \in Answers : SimpanStart(w, q, a)
          \/ SimpanCheck(w)
          \/ SimpanInsert(w)
          \/ SimpanReturn(w)

SpecRace == Init /\ [][NextRace]_vars

(***************************************************************************)
(* SpecLookup: the single instance of Spec, saving and asking the          *)
(* questions of the lookup scenarios.                                      *)
(***************************************************************************)
\* the questions saved: "Ibukota Jepang adalah apa?", "ab cd"
LookupSaved ==
    {
      <<"I", "b", "u", "k", "o", "t", "a", " ", "J", "e", "p", "a", "n",
        "g", " ", "a", "d", "a", "l", "a", "h", " ", "a", "p", "a", "?">>,
      <<"a", "b", " ", "c", "d">> }

\* the answers saved: "Tokyo", "p"
LookupAnswers == { <<"T", "o", "k", "y", "o">>, <<"p">> }

\* the questions asked: "apa ibukota jepang", "ibukota Prancis", "abcd"
LookupAsked ==
    {
      <<"a", "p", "a", " ", "i", "b", "u", "k", "o", "t", "a", " ", "j",
        "e", "p", "a", "n", "g">>,
      <<"i", "b", "u", "k", "o", "t", "a", " ", "P", "r", "a", "n", "c",
        "i", "s">>,
      <<"a", "b", "c", "d">> }

NextLookup ==
    \/ \E made \in BOOLEAN : InitializeServices(made)
    \/ \E q \in LookupSaved, a \in LookupAnswers : SimpanStart(1, q, a)
    \/ SimpanCheck(1)
    \/ SimpanInsert(1)
    \/ SimpanReturn(1)
    \/ \E q \in LookupAsked : FindStart(1, q)
    \/ FindExact(1)
    \/ FindSimilarity(1)
    \/ FindKeyword(1)
    \/ FindReturn(1)

SpecLookup == Init /\ [][NextLookup]_vars

(***************************************************************************)
(* SpecText: normalize_for_search and extract_keywords applied to a text.  *)
(* The texts are the concatenations of at most MaxTokens tokens.           *)
(***************************************************************************)
\* the longest text, in tokens
MaxTokens == 3

\* "gimana", "kenapa", "kapankah", "siapakah", "Apakah", "di", "itu", "x",
\* " ", ",", "_"
TextTokens ==
    {
      <<"g", "i", "m", "a", "n", "a">>,
      <<"k", "e", "n", "a", "p", "a">>,
      <<"k", "a", "p", "a", "n", "k", "a", "h">>,
      <<"s", "i", "a", "p", "a", "k", "a", "h">>,
      <<"A", "p", "a", "k", "a", "h">>,
      <<"d", "i">>,
      <<"i", "t", "u">>,
      <<"x">>,
      <<" ">>,
      <<",">>,
      <<"_">> }

RECURSIVE TextsOf(_)
\* the concatenations of exactly n tokens
TextsOf(n) ==
    IF n = 0 THEN {<<>>}
    ELSE {t \o k : t \in TextsOf(n - 1), k \in TextTokens}

\* "Hello,  World!"
HelloWorld ==
    <<"H", "e", "l", "l", "o", ",", " ", " ", "W", "o", "r", "l", "d", "!">>

Texts == UNION {TextsOf(n) : n \in 0..MaxTokens} \cup {HelloWorld}

\* the instance at rest with a client and an empty table, no text function
\* applied yet
AtRest ==
    /\ bq_client = "Client"
    /\ store = <<>>
    /\ pc = [w \in Workers |-> "idle"]
    /\ s_args = [w \in Workers |-> <<>>]
    /\ s_norm = [w \in Workers |-> <<>>]
    /\ s_seen = [w \in Workers |-> <<>>]
    /\ s_why = [w \in Workers |-> ""]
    /\ s_ret = [w \in Workers |-> FALSE]
    /\ f_arg = [w \in Workers |-> <<>>]
    /\ f_norm = [w \in Workers |-> <<>>]
    /\ f_phase = [w \in Workers |-> 0]
    /\ f_log = [w \in Workers |-> <<>>]
    /\ f_ret = [w \in Workers |-> None]
    /\ saved = {}
    /\ t_op = ""
    /\ t_out = <<>>
    /\ t_calls = <<>>
    /\ h_pc = "idle"
    /\ h_question = <<>>
    /\ h_out = NoReply
    /\ h_reply = NoReply

InitText ==
    /\ AtRest
    /\ t_a \in Texts
    /\ t_b = <<>>

\* a call normalize_for_search(t_a)
ApplyNormalize ==
    /\ t_op = ""
    /\ t_op' = "normalize_for_search"
    /\ t_out' = normalize_for_search(t_a)
    /\ UNCHANGED <<bq_client, store, pc, s_vars, f_vars, saved, t_a, t_b,
                   t_calls, h_vars>>

\* a call extract_keywords(t_a)
ApplyKeywords ==
    /\ t_op = ""
    /\ t_op' = "extract_keywords"
    /\ t_out' = extract_keywords(t_a)
    /\ UNCHANGED <<bq_client, store, pc, s_vars, f_vars, saved, t_a, t_b,
                   t_calls, h_vars>>

NextText ==
    \/ ApplyNormalize
    \/ ApplyKeywords

SpecText == InitText /\ [][NextText]_vars

(***************************************************************************)
(* SpecScore: calculate_text_similarity applied to two texts, and          *)
(* search_with_keywords applied to a normalized question over a table of   *)
(* one row.                                                                *)
(***************************************************************************)
\* "", " ", "tide", "diet", "itu", "itu ab", "x", "x y", "di ab", "di cd",
\* "ab cd", "cd ab", "satu dua tiga empat lima",
\* "satu enam tujuh delapan sembilan"
Sentences ==
    {
      <<>>,
      <<" ">>,
      <<"t", "i", "d", "e">>,
      <<"d", "i", "e", "t">>,
      <<"i", "t", "u">>,
      <<"i", "t", "u", " ", "a", "b">>,
      <<"x">>,
      <<"x", " ", "y">>,
      <<"d", "i", " ", "a", "b">>,
      <<"d", "i", " ", "c", "d">>,
      <<"a", "b", " ", "c", "d">>,
      <<"c", "d", " ", "a", "b">>,
      <<"s", "a", "t", "u", " ", "d", "u", "a", " ", "t", "i", "g", "a",
        " ", "e", "m", "p", "a", "t", " ", "l", "i", "m", "a">>,
      <<"s", "a", "t", "u", " ", "e", "n", "a", "m", " ", "t", "u", "j",
        "u", "h", " ", "d", "e", "l", "a", "p", "a", "n", " ", "s", "e",
        "m", "b", "i", "l", "a", "n">> }

InitScore ==
    /\ AtRest
    /\ t_a \in Sentences
    /\ t_b \in Sentences

\* a call calculate_text_similarity(t_a, t_b)
ApplySimilarity ==
    /\ t_op = ""
    /\ t_op' = "calculate_text_similarity"
    /\ t_out' = calculate_text_similarity(t_a, t_b)
    /\ UNCHANGED <<bq_client, store, pc, s_vars, f_vars, saved, t_a, t_b,
                   t_calls, h_vars>>

\* the table holding the one row simpan_soal inserts for question
OneRowTable(question) == <<simpan_row(<<>>, question, <<"p">>)>>

\* a call search_with_keywords(t_a, ...) for a normalized question t_a, the
\* table holding the row saved for the question t_b; the query returns its
\* rows or raises, and the except clause then returns None
ApplyKeywordSearch ==
    /\ t_op = ""
    /\ t_a # <<>>
    /\ normalize_for_search(t_a) = t_a
    /\ simpan_validate(t_b, <<"p">>) = ""
    /\ t_op' = "search_with_keywords"
    /\ LET kws == search_keywords(t_a) IN
       \E out \in IF kws = <<>> THEN {QueryRows(<<>>)}
                  ELSE KeywordOutcomes(OneRowTable(t_b), kws) :
          t_out' = search_with_keywords(t_a, out)
    /\ UNCHANGED <<bq_client, store, pc, s_vars, f_vars, saved, t_a, t_b,
                   t_calls, h_vars>>

NextScore ==
    \/ ApplySimilarity
    \/ ApplyKeywordSearch

SpecScore == InitScore /\ [][NextScore]_vars

(***************************************************************************)
(* SpecRank: search_with_similarity called on its own, once at each        *)
(* threshold of the cascade, on the table the instance has saved.          *)
(***************************************************************************)
\* the questions and answers saved: "di ke ay" with "p", "di ke az" with
\* "q " and "di by" with "p"
RankSaved ==
    { <<<<"d", "i", " ", "k", "e", " ", "a", "y">>, <<"p">>>>,
      <<<<"d", "i", " ", "k", "e", " ", "a", "z">>, <<"q", " ">>>>,
      <<<<"d", "i", " ", "b", "y">>, <<"p">>>> }

\* the normalized questions searched for: "di ke ax", and "a", which has no
\* keyword
RankAsked ==
    { <<"d", "i", " ", "k", "e", " ", "a", "x">>,
      <<"a">> }

\* the thresholds find_answer_from_question passes to search_with_similarity
SimilarityThresholds ==
    {CASCADE[k].threshold : k \in {n \in DOMAIN CASCADE : CASCADE[n].kind = "similarity"}}

\* what the query of search_with_similarity may do; without a client the
\* call bq_client.query raises
SimilarityQuery(client, tbl, kws) ==
    IF kws = <<>> THEN {QueryRows(<<>>)}
    ELSE IF client = "None" THEN {QueryFault}
    ELSE SimilarityOutcomes(tbl, kws)

\* the scores the loop of search_with_similarity gives the rows, in order
RowScores(question_normalized, rows) ==
    [i \in DOMAIN rows |->
        calculate_text_similarity(question_normalized,
                                  rows[i].question_normalized)]

\* a call search_with_similarity(question_normalized, threshold), kept in
\* t_calls under its threshold with the table it ran on, the rows its
\* query returned and the scores its loop gave them
ApplySimilaritySearch(question_normalized, threshold) ==
    /\ pc[1] = "idle"
    /\ threshold \notin DOMAIN t_calls
    /\ \A th \in DOMAIN t_calls :
          t_calls[th].question_normalized = question_normalized
    /\ \E out \in SimilarityQuery(bq_client, store,
                                  main_keywords(question_normalized)) :
          t_calls' = t_calls @@
              (threshold :>
                  [question_normalized |-> question_normalized,
                   threshold |-> threshold,
                   tbl |-> store,
                   fault |-> out.fault,
                   rows |-> out.rows,
                   scores |-> RowScores(question_normalized, out.rows),
                   answer |-> search_with_similarity(question_normalized,
                                                     threshold, out)])
    /\ UNCHANGED <<bq_client, store, pc, s_vars, f_vars, saved,
                   t_op, t_a, t_b, t_out, h_vars>>

NextRank ==
    \/ \E made \in BOOLEAN : InitializeServices(made)
    \/ \E r \in RankSaved : SimpanStart(1, r[1], r[2])
    \/ SimpanCheck(1)
    \/ SimpanInsert(1)
    \/ SimpanReturn(1)
    \/ \E q \in RankAsked, th \in SimilarityThresholds :
          ApplySimilaritySearch(q, th)

SpecRank == Init /\ [][NextRank]_vars

(***************************************************************************)
(* SpecHandler: the text-message handler cari_jawaban_teks of one bot      *)
(* instance, which calls find_answer_from_question and renders its result. *)
(***************************************************************************)
TEKS_TOO_SHORT ==
    <<"Pertanyaan terlalu pendek. Silakan berikan pertanyaan yang lebih lengkap.">>

TEKS_UNAVAILABLE ==
    <<"Database sedang tidak tersedia. Silakan coba lagi nanti.">>

TEKS_ERROR ==
    <<"Terjadi kesalahan saat mencari jawaban. Silakan coba lagi nanti.">>

\* "Jawaban tidak ditemukan", the text the handler compares the result of
\* the lookup with, character by character as the texts of the table are
TEKS_NOT_FOUND ==
    <<"J", "a", "w", "a", "b", "a", "n", " ", "t", "i", "d", "a", "k", " ",
      "d", "i", "t", "e", "m", "u", "k", "a", "n">>

MinTeksLen == 2

\* the checks of cari_jawaban_teks before the lookup: the sentence replied
\* at once, or None to go on
teks_precheck(client, question) ==
    IF Len(question) < MinTeksLen THEN TEKS_TOO_SHORT
    ELSE IF client = "None" THEN TEKS_UNAVAILABLE
    ELSE None

\* the response cari_jawaban_teks formats from the result of the lookup
teks_response(question, answer) ==
    IF Truthy(answer) /\ answer # TEKS_NOT_FOUND
    THEN Reply("answer", question, answer)
    ELSE Reply("failure", question, answer)

\* the message texts sent: "ab cd" between spaces, "ab?", "x" followed by
\* a control character, "x"
HandlerTexts ==
    { <<" ", "a", "b", " ", "c", "d", " ">>,
      <<"a", "b", "?">>,
      <<"x", "BEL">>,
      <<"x">> }

\* the question saved: "ab cd"
HandlerSaved == { <<"a", "b", " ", "c", "d">> }

\* the answers saved: "p", and the text the handler compares with
HandlerAnswers == { <<"p">>, TEKS_NOT_FOUND }

\* the handler is left: nothing is kept of the call
TeksLeave ==
    /\ h_pc' = "idle"
    /\ h_question' = <<>>
    /\ h_out' = NoReply

\* cari_jawaban_teks from its entry to its first await.  has_user is
\* whether update.effective_user is set: the log line reads its username
\* and raises without it, which the except clause answers.  Otherwise the
\* checks choose between the reply sent at once and the typing indicator.
\* The Application runs one handler at a time.
TeksStart(text, has_user) ==
    /\ h_pc = "idle"
    /\ pc[1] = "idle"
    /\ h_question' = Strip(text)
    /\ LET early == teks_precheck(bq_client, Strip(text)) IN
       IF ~has_user
       THEN /\ h_pc' = "except"
            /\ h_out' = NoReply
       ELSE IF early # None
       THEN /\ h_pc' = "send"
            /\ h_out' = Reply("plain", <<>>, early)
       ELSE /\ h_pc' = "typing"
            /\ h_out' = NoReply
    /\ UNCHANGED <<bq_client, store, pc, s_vars, f_vars, saved,
                   t_op, t_a, t_b, t_out, t_calls, h_reply>>

\* await reply_chat_action returning: it raised, which the except clause
\* answers, or the handler calls find_answer_from_question(question)
TeksTyping(raised) ==
    /\ h_pc = "typing"
    /\ pc[1] = "idle"
    /\ IF raised
       THEN /\ h_pc' = "except"
            /\ UNCHANGED <<bq_client, store, pc, s_vars, f_vars, saved>>
       ELSE /\ h_pc' = "lookup"
            /\ FindEnter(1, h_question)
    /\ UNCHANGED <<t_op, t_a, t_b, t_out, t_calls, h_question, h_out, h_reply>>

\* find_answer_from_question returned to the handler, which formats the
\* response and starts sending it
TeksRespond ==
    /\ h_pc = "lookup"
    /\ pc[1] = "f_done"
    /\ h_pc' = "send"
    /\ h_out' = teks_response(h_question, f_ret[1])
    /\ pc' = [pc EXCEPT ![1] = "idle"]
    /\ f_arg' = [f_arg EXCEPT ![1] = <<>>]
    /\ f_norm' = [f_norm EXCEPT ![1] = <<>>]
    /\ f_phase' = [f_phase EXCEPT ![1] = 0]
    /\ f_log' = [f_log EXCEPT ![1] = <<>>]
    /\ f_ret' = [f_ret EXCEPT ![1] = None]
    /\ UNCHANGED <<bq_client, store, s_vars, saved,
                   t_op, t_a, t_b, t_out, t_calls, h_question, h_reply>>

\* await reply_text of the try block returning: the reply is sent and the
\* handler is left, or the call raised, which the except clause answers
TeksSend(raised) ==
    /\ h_pc = "send"
    /\ IF raised
       THEN /\ h_pc' = "except"
            /\ h_out' = NoReply
            /\ UNCHANGED <<h_question, h_reply>>
       ELSE /\ h_reply' = h_out
            /\ TeksLeave
    /\ UNCHANGED <<bq_client, store, pc, s_vars, f_vars, saved,
                   t_op, t_a, t_b, t_out, t_calls>>

\* await reply_text of the except clause returning: the error sentence is
\* sent, or the call raised and the exception leaves the handler with
\* nothing sent
TeksExcept(raised) ==
    /\ h_pc = "except"
    /\ h_reply' = IF raised THEN h_reply ELSE Reply("plain", <<>>, TEKS_ERROR)
    /\ TeksLeave
    /\ UNCHANGED <<bq_client, store, pc, s_vars, f_vars, saved,
                   t_op, t_a, t_b, t_out, t_calls>>

\* one bot instance: its handler, and simpan_soal and initialize_services
\* called from other tasks of its event loop, which run while the handler
\* stands at an await
NextHandler ==
    \/ \E made \in BOOLEAN : InitializeServices(made)
    \/ \E q \in HandlerSaved, a \in HandlerAnswers : SimpanStart(1, q, a)
    \/ SimpanCheck(1)
    \/ SimpanInsert(1)
    \/ SimpanReturn(1)
    \/ \E text \in HandlerTexts, has_user \in BOOLEAN : TeksStart(text, has_user)
    \/ \E raised \in BOOLEAN : TeksTyping(raised)
    \/ FindExact(1)
    \/ FindSimilarity(1)
    \/ FindKeyword(1)
    \/ TeksRespond
    \/ \E raised \in BOOLEAN : TeksSend(raised)
    \/ \E raised \in BOOLEAN : TeksExcept(raised)

SpecHandler == Init /\ [][NextHandler]_vars

(***************************************************************************)
(* Properties.                                                             *)
(***************************************************************************)
\* the answers of the rows of the table
StoredAnswers == {store[i].answer : i \in DOMAIN store}

\* the fixed messages of find_answer_from_question
Messages == {MSG_UNAVAILABLE, MSG_TOO_SHORT, MSG_NOT_FOUND, MSG_ERROR}

\* the phases of the lookup as the specification orders them
ExpectedPhases ==
    << [kind |-> "exact", threshold |-> FloatOfInt(1)],
       [kind |-> "similarity", threshold |-> FloatDiv(7, 10)],
       [kind |-> "keyword", threshold |-> FloatDiv(4, 10)],
       [kind |-> "similarity", threshold |-> FloatDiv(5, 10)] >>

\* some phase of the call of w had its query raise
SomeFault(w) == \E k \in DOMAIN f_log[w] : f_log[w][k].fault

\* C1: whatever the question and whatever the store queries do, faults in
\* any phase included, a finished find_answer_from_question has returned
\* an answer of the table (Found) or one of the fixed messages (not found,
\* too short, store unavailable, generic failure): never None, never an
\* exception.
C1_OneOfFourOutcomes ==
    \A w \in Workers :
        pc[w] = "f_done" => f_ret[w] \in StoredAnswers \cup Messages

\* C1 witness: a call in which a query raised has finished
C1_Witness ==
    /\ pc[1] = "f_done"
    /\ SomeFault(1)
    /\ f_ret[1] = MSG_NOT_FOUND

\* C2: the phases run in the order exact, similarity at 0.7, keyword at
\* 0.4, similarity at 0.5; a phase that gives an answer is the last one
\* run and its answer is returned (an exact hit is the only phase run);
\* the not-found message is returned only after all four phases ran and
\* none gave an answer.
C2_FixedOrderShortCircuit ==
    \A w \in Workers :
        /\ Len(f_log[w]) <= Len(ExpectedPhases)
        /\ \A k \in DOMAIN f_log[w] :
              /\ f_log[w][k].kind = ExpectedPhases[k].kind
              /\ f_log[w][k].threshold = ExpectedPhases[k].threshold
              /\ f_log[w][k].hit =>
                    /\ k = Len(f_log[w])
                    /\ pc[w] = "f_done"
                    /\ f_ret[w] \in StoredAnswers
        /\ (pc[w] = "f_done" /\ f_ret[w] \in StoredAnswers) =>
              (f_log[w] # <<>> /\ f_log[w][Len(f_log[w])].hit)
        /\ (pc[w] = "f_done" /\ f_ret[w] = MSG_NOT_FOUND) =>
              /\ Len(f_log[w]) = Len(ExpectedPhases)
              /\ \A k \in DOMAIN f_log[w] : ~f_log[w][k].hit

\* C2 witness: the keyword phase gave the answer, after the exact and the
\* first similarity phase queried the table and gave none
C2_Witness ==
    /\ pc[1] = "f_done"
    /\ Len(f_log[1]) = 3
    /\ f_log[1][1].queried /\ ~f_log[1][1].fault
    /\ f_log[1][2].queried /\ ~f_log[1][2].fault
    /\ f_log[1][3].hit

\* C3 as stated: after simpan_soal(q, a) returned True, a finished
\* find_answer_from_question(q2) with normalize(q2) = normalize(q), no
\* query raising, has returned a.
C3_RoundTripAsStated ==
    \A w \in Workers :
        (pc[w] = "f_done" /\ bq_client = "Client" /\ ~SomeFault(w)) =>
            \A p \in saved :
                normalize_for_search(p[1]) = normalize_for_search(f_arg[w])
                    => f_ret[w] = p[2]

\* C3 amended: after simpan_soal(q, a) returned True (calls not
\* interleaved), a finished find_answer_from_question(q2) with
\* normalize(q2) = normalize(q), whose cleaned q2 has at least 2
\* characters and whose exact-match query did not raise, has returned
\* clean_text(a).
C3_RoundTrip ==
    \A w \in Workers :
        (/\ pc[w] = "f_done"
         /\ bq_client = "Client"
         /\ Len(clean_text(f_arg[w])) >= 2
         /\ f_log[w] # <<>>
         /\ ~f_log[w][1].fault) =>
            \A p \in saved :
                normalize_for_search(p[1]) = normalize_for_search(f_arg[w])
                    => f_ret[w] = clean_text(p[2])

\* C3 witness: "Ab  cd?" is answered from the row saved for "ab cd" with
\* the answer "q "
C3_Witness ==
    /\ pc[1] = "f_done"
    /\ f_arg[1] = <<"A", "b", " ", " ", "c", "d", "?">>
    /\ <<<<"a", "b", " ", "c", "d">>, <<"q", " ">>>> \in saved
    /\ f_ret[1] = <<"q">>

\* C4: with simpan_soal calls run one after the other from an empty table,
\* no two rows have the same question_normalized.
C4_NoDuplicateNormalized ==
    \A i, j \in DOMAIN store :
        i # j => store[i].question_normalized # store[j].question_normalized

\* C4 witness: with a row in the table, a simpan_soal call for another
\* spelling of its question returned False on the duplicate check
C4_Witness ==
    /\ pc[1] = "s_done"
    /\ s_why[1] = "duplicate"
    /\ ~s_ret[1]
    /\ \E i \in DOMAIN store :
          /\ store[i].question_normalized = s_norm[1]
          /\ store[i].question # clean_text(s_args[1][1])

\* C5: when two simpan_soal calls for the same question_normalized both
\* ran their duplicate check before either inserted (neither check saw a
\* row with it) and no table operation failed, both have returned True
\* and the table holds two rows with that question_normalized.
C5_RaceDuplicates ==
    \A w1, w2 \in Workers :
        (/\ w1 # w2
         /\ pc[w1] = "s_done" /\ pc[w2] = "s_done"
         /\ s_norm[w1] # <<>> /\ s_norm[w1] = s_norm[w2]
         /\ \A w \in {w1, w2} :
               /\ s_why[w] \notin {"invalid", "empty_normalized", "exception", "errors"}
               /\ CountDuplicates(s_seen[w], s_norm[w]) = 0) =>
            /\ s_ret[w1] /\ s_ret[w2]
            /\ Cardinality({i \in DOMAIN store :
                               store[i].question_normalized = s_norm[w1]}) >= 2

\* C5 witness: both calls returned True and the table holds their two
\* rows, with the same question_normalized
C5_Witness ==
    /\ pc[1] = "s_done" /\ pc[2] = "s_done"
    /\ s_ret[1] /\ s_ret[2]
    /\ s_norm[1] = s_norm[2]
    /\ Len(store) = 2
    /\ store[1].question_normalized = store[2].question_normalized

\* C6: a simpan_soal call whose duplicate check read a table holding a row
\* with the same question_normalized has returned False and the table is
\* as the check read it: the first row kept, none added.
C6_DuplicateRejected ==
    \A w \in Workers :
        (pc[w] = "s_done" /\ CountDuplicates(s_seen[w], s_norm[w]) > 0) =>
            /\ ~s_ret[w]
            /\ store = s_seen[w]

\* C6 witness: a call with another answer for a stored question returned
\* False
C6_Witness ==
    /\ pc[1] = "s_done"
    /\ s_why[1] = "duplicate"
    /\ \E i \in DOMAIN store :
          /\ store[i].question_normalized = s_norm[1]
          /\ store[i].answer # clean_text(s_args[1][2])

\* C7: without a store client, a finished find_answer_from_question has
\* returned the store-unavailable message, whatever the question, without
\* normalizing it and without running any phase.
C7_UnavailableFirst ==
    \A w \in Workers :
        (pc[w] = "f_done" /\ bq_client = "None") =>
            /\ f_ret[w] = MSG_UNAVAILABLE
            /\ f_log[w] = <<>>
            /\ f_norm[w] = <<>>

\* C7 witness: without a client, the one-character question "x" was
\* answered
C7_Witness ==
    /\ pc[1] = "f_done"
    /\ bq_client = "None"
    /\ f_arg[1] = <<"x">>

\* C8: with the store available, a finished find_answer_from_question for
\* a question whose normalized form has fewer than 2 characters has
\* returned the too-short message and has run no phase.
C8_TooShortOnNormalized ==
    \A w \in Workers :
        (/\ pc[w] = "f_done"
         /\ bq_client = "Client"
         /\ Len(normalize_for_search(f_arg[w])) < 2) =>
            /\ f_ret[w] = MSG_TOO_SHORT
            /\ f_log[w] = <<>>

\* C9: a phase whose query raised gave no answer and the lookup went on:
\* the next phase runs (or, after the last phase, the not-found message is
\* returned), and the call ends with an answer of the table or the
\* not-found message, never with the failure message.
C9_FaultAbsorbed ==
    \A w \in Workers :
        \A k \in DOMAIN f_log[w] :
            f_log[w][k].fault =>
                /\ ~f_log[w][k].hit
                /\ k = Len(f_log[w]) =>
                      \/ (pc[w] = "f_phase" /\ f_phase[w] = k + 1)
                      \/ (/\ pc[w] = "f_done"
                          /\ k = Len(ExpectedPhases)
                          /\ f_ret[w] = MSG_NOT_FOUND)
                /\ pc[w] = "f_done" =>
                      f_ret[w] \in StoredAnswers \cup {MSG_NOT_FOUND}

\* C9 witness: the exact-match query raised and the similarity phase
\* after it gave the answer returned
C9_Witness ==
    /\ pc[1] = "f_done"
    /\ Len(f_log[1]) = 2
    /\ f_log[1][1].fault
    /\ f_log[1][2].hit
    /\ f_ret[1] \in StoredAnswers

\* C10: a finished find_answer_from_question in which the query of every
\* one of the four phases raised has returned the failure message.
C10_AllFaultsGiveFailure ==
    \A w \in Workers :
        (/\ pc[w] = "f_done"
         /\ Len(f_log[w]) = Len(ExpectedPhases)
         /\ \A k \in DOMAIN f_log[w] : f_log[w][k].fault) =>
            f_ret[w] \in {MSG_ERROR, MSG_UNAVAILABLE}

\* a normalized text with its spaces and underscores removed
Squeezed(text) == RemoveChars(text, {" ", "_"})

\* C11: a finished find_answer_from_question with no query raising, for a
\* question whose normalized form no row has but whose normalized form
\* with spaces and underscores removed equals that of some row, has
\* returned the answer of such a row.
C11_AlternateNormalizationMatch ==
    \A w \in Workers :
        LET qn == normalize_for_search(f_arg[w])
            alike == {i \in DOMAIN store :
                         Squeezed(store[i].question_normalized) = Squeezed(qn)}
        IN (/\ pc[w] = "f_done"
            /\ bq_client = "Client"
            /\ ~SomeFault(w)
            /\ Len(clean_text(f_arg[w])) >= 2
            /\ \A i \in DOMAIN store : store[i].question_normalized # qn
            /\ alike # {}) =>
               \E i \in alike : f_ret[w] = store[i].answer

\* C12: normalize_for_search applied to a value it returned gives that
\* value back, for texts with the folded synonyms, punctuation,
\* underscores and mixed case.
C12_NormalizeIdempotent ==
    t_op = "normalize_for_search" => normalize_for_search(t_out) = t_out

\* C12 witness: "Apakah,gimana" was normalized to "apa bagaimana"
C12_Witness ==
    /\ t_op = "normalize_for_search"
    /\ t_a = <<"A", "p", "a", "k", "a", "h", ",", "g", "i", "m", "a", "n", "a">>
    /\ t_out = <<"a", "p", "a", " ", "b", "a", "g", "a", "i", "m", "a", "n", "a">>

\* C13: the value normalize_for_search returns holds only lowercase
\* letters, digits and single spaces between tokens, with no space at
\* either end: every other character, the underscore included, was
\* replaced by a space.
C13_OnlyLettersDigitsSpaces ==
    t_op = "normalize_for_search" =>
        /\ \A i \in DOMAIN t_out : t_out[i] \in LowerLetters \cup Digits \cup {" "}
        /\ \A i \in DOMAIN t_out :
              t_out[i] = " " => (i > 1 /\ i < Len(t_out) /\ t_out[i + 1] # " ")
        /\ (t_a = HelloWorld =>
               t_out = <<"h", "e", "l", "l", "o", " ", "w", "o", "r", "l", "d">>)

\* C14 as stated: calculate_text_similarity(s, s) is 1.0 for every string
\* s, the empty string included.
C14_SelfSimilarityAsStated ==
    (t_op = "calculate_text_similarity" /\ t_a = t_b) => t_out = ScoreOne

\* C14 amended: calculate_text_similarity(s, s) is 1.0 for every
\* non-empty string s.
C14_SelfSimilarity ==
    (t_op = "calculate_text_similarity" /\ t_a = t_b /\ t_a # <<>>) =>
        t_out = ScoreOne

\* C14 witness: the text " " was compared with itself
C14_Witness ==
    /\ t_op = "calculate_text_similarity"
    /\ t_a = <<" ">>
    /\ t_b = <<" ">>
    /\ t_out = ScoreOne

\* C15: calculate_text_similarity(a, b) is the value of
\* calculate_text_similarity(b, a).
C15_SimilaritySymmetric ==
    t_op = "calculate_text_similarity" =>
        t_out = calculate_text_similarity(t_b, t_a)

\* C16: calculate_text_similarity(a, b) is 0.0 whenever extract_keywords
\* of a or extract_keywords of b is empty, whatever the other string is.
C16_ZeroWithoutKeywords ==
    (/\ t_op = "calculate_text_similarity"
     /\ (extract_keywords(t_a) = <<>> \/ extract_keywords(t_b) = <<>>)) =>
        t_out = ScoreZero

\* the table holds only the row saved for "Ibukota Jepang adalah apa?"
\* with the answer "Tokyo"
OnlyTokyoRecord ==
    /\ Len(store) = 1
    /\ store[1].question =
           <<"I", "b", "u", "k", "o", "t", "a", " ", "J", "e", "p", "a",
             "n", "g", " ", "a", "d", "a", "l", "a", "h", " ", "a", "p",
             "a", "?">>
    /\ store[1].answer = <<"T", "o", "k", "y", "o">>

\* C17: with only the Tokyo record in the table and no query raising, a
\* finished find_answer_from_question("apa ibukota jepang") has returned
\* "Tokyo", and a finished find_answer_from_question("ibukota Prancis")
\* has returned the not-found message after all four phases.
C17_FuzzyDiscriminates ==
    \A w \in Workers :
        (pc[w] = "f_done" /\ bq_client = "Client" /\ ~SomeFault(w)
            /\ OnlyTokyoRecord) =>
            /\ (f_arg[w] = <<"a", "p", "a", " ", "i", "b", "u", "k", "o", "t", "a", " ",
                           "j", "e", "p", "a", "n", "g">>)
                  => f_ret[w] = <<"T", "o", "k", "y", "o">>
            /\ (f_arg[w] = <<"i", "b", "u", "k", "o", "t", "a", " ", "P", "r", "a", "n",
                           "c", "i", "s">>)
                  => (f_ret[w] = MSG_NOT_FOUND /\ Len(f_log[w]) = Len(ExpectedPhases))

\* C18: when the normalized question and the stored normalized question
\* have 5 keywords each and share exactly 1 of them, the score of the
\* keyword phase (similarity plus 0.1 per matched keyword) is below 0.4
\* and search_with_keywords returns no answer.
C18_NearMissRejected ==
    LET stored == OneRowTable(t_b)[1].question_normalized
        kws_a == Range(extract_keywords(t_a))
        kws_b == Range(extract_keywords(stored))
    IN (/\ t_op = "search_with_keywords"
        /\ Cardinality(kws_a) = 5
        /\ Cardinality(kws_b) = 5
        /\ Cardinality(kws_a \cap kws_b) = 1) =>
           /\ FloatLt(FloatAdd(calculate_text_similarity(t_a, stored),
                              FloatMul(FloatOfInt(KeywordMatches(stored,
                                                      search_keywords(t_a))),
                                       KeywordBonus)),
                     KeywordThreshold)
           /\ t_out = None

\* C19: every step of simpan_soal and find_answer_from_question leaves
\* each row of the table in place with its fields unchanged; a step of
\* find_answer_from_question leaves the table as it is; a step of
\* simpan_soal adds at most one row, and a finished simpan_soal call has
\* added at most one row to the table its duplicate check read.
C19_AppendOnly ==
    [][/\ Len(store') >= Len(store)
       /\ Len(store') <= Len(store) + 1
       /\ \A i \in DOMAIN store : store'[i] = store[i]
       /\ \A w \in Workers :
             /\ (pc[w] \in {"f_phase", "f_done"} \/ pc'[w] \in {"f_phase", "f_done"})
                   => store' = store
             /\ (pc[w] = "s_insert" /\ pc'[w] = "s_done")
                   => Len(store') <= Len(s_seen[w]) + 1]_vars

\* C19 witness: a find_answer_from_question call has finished on a table
\* of two rows saved by two simpan_soal calls
C19_Witness ==
    /\ pc[1] = "f_done"
    /\ Len(store) = 2
    /\ Cardinality(saved) = 2
    /\ f_ret[1] \in StoredAnswers

\* C20: extract_keywords returns, in their order in the text, exactly the
\* whitespace-separated tokens of the normalized text that are important
\* words, or that have at least 2 characters and are not stopwords (an
\* important word is kept whatever its length and whether or not it is a
\* stopword); for the empty text it returns the empty sequence, and in
\* every case it returns such a sequence rather than raising.
C20_KeywordsAsSpecified ==
    t_op = "extract_keywords" =>
        LET tokens == Split(normalize_for_search(t_a))
            kept == {i \in DOMAIN tokens :
                        \/ tokens[i] \in IMPORTANT_WORDS
                        \/ (Len(tokens[i]) >= 2 /\ tokens[i] \notin STOPWORDS)}
            nth(k) == CHOOSE i \in kept : Cardinality({j \in kept : j < i}) = k - 1
        IN /\ Len(t_out) = Cardinality(kept)
           /\ \A k \in 1..Len(t_out) : t_out[k] = tokens[nth(k)]
           /\ (t_a = <<>> => t_out = <<>>)

\* C20 witness: of "itu,di" the stopword "itu" was dropped and the
\* important word "di" kept
C20_Witness ==
    /\ t_op = "extract_keywords"
    /\ t_a = <<"i", "t", "u", ",", "d", "i">>
    /\ t_out = << <<"d", "i">> >>

\* the rows whose score reaches the threshold
ClearingOf(threshold, scores) ==
    {i \in DOMAIN scores : FloatLe(threshold, scores[i])}

\* the rows of a call whose score reaches its threshold
Clearing(call) == ClearingOf(call.threshold, call.scores)

\* of the rows that reach the threshold, the first with the highest score
FirstBest(clearing, scores) ==
    CHOOSE i \in clearing :
        /\ \A j \in clearing : FloatLe(scores[j], scores[i])
        /\ \A j \in clearing : j < i => FloatLt(scores[j], scores[i])

\* the answer of the first row with the highest score among the rows in
\* clearing, if any
BestOf(rows, clearing, scores) ==
    IF clearing = {} THEN None
    ELSE rows[FirstBest(clearing, scores)].answer

\* the answer of the first row with the highest score, if any reaches the
\* threshold
BestAnswer(rows, threshold, scores) ==
    BestOf(rows, ClearingOf(threshold, scores), scores)

\* C21: a search_with_similarity call whose query did not raise has
\* returned nothing when no row its query returned reaches the threshold,
\* and otherwise the answer of the row with the highest score, the first
\* of them in the order the query returned the rows when several have it.
C21_BestCandidateFirstOnTies ==
    \A th \in DOMAIN t_calls :
        ~t_calls[th].fault =>
            t_calls[th].answer =
                BestAnswer(t_calls[th].rows, th, t_calls[th].scores)

\* C21 witness: the query returned two rows with different answers and
\* the same score, both reaching the threshold, and the answer of the
\* first was returned
C21_Witness ==
    \E th \in DOMAIN t_calls :
        LET call == t_calls[th] IN
        /\ ~call.fault
        /\ Len(call.rows) = 2
        /\ Clearing(call) = {1, 2}
        /\ call.scores[1] = call.scores[2]
        /\ call.rows[1].answer # call.rows[2].answer
        /\ call.answer = call.rows[1].answer

\* the thresholds of the two similarity phases of the cascade
HighThreshold == CASCADE[2].threshold
LowThreshold == CASCADE[4].threshold

\* both thresholds were searched on the same table and the query of the
\* low-threshold call did not raise
BothSearched ==
    /\ {HighThreshold, LowThreshold} \subseteq DOMAIN t_calls
    /\ t_calls[HighThreshold].tbl = t_calls[LowThreshold].tbl
    /\ ~t_calls[LowThreshold].fault

\* the sequences a and b hold the same rows, each as many times
SameRows(a, b) ==
    /\ Len(a) = Len(b)
    /\ \A i \in DOMAIN a :
          Cardinality({j \in DOMAIN a : a[j] = a[i]})
              = Cardinality({j \in DOMAIN b : b[j] = a[i]})

\* C22 as stated: when the call at the high threshold returned an answer,
\* the call at the low threshold on the same table returned the same
\* answer.
C22_SameAnswerAsStated ==
    (BothSearched /\ t_calls[HighThreshold].answer # None)
        => t_calls[LowThreshold].answer = t_calls[HighThreshold].answer

\* C22: when the call at the high threshold returned an answer and the
\* query of the call at the low threshold returned the same rows, the
\* low-threshold call returned an answer too, and the same answer when the
\* rows came in the same order.
C22_SameAnswerOnSameRows ==
    (/\ BothSearched
     /\ t_calls[HighThreshold].answer # None
     /\ SameRows(t_calls[LowThreshold].rows, t_calls[HighThreshold].rows))
        => /\ t_calls[LowThreshold].answer # None
           /\ t_calls[LowThreshold].rows = t_calls[HighThreshold].rows
                 => t_calls[LowThreshold].answer
                        = t_calls[HighThreshold].answer

\* C22 witness: both calls got the same two rows in the same order, the
\* first reaching the low threshold only and the second the high one, and
\* both returned the answer of the second
C22_Witness ==
    /\ BothSearched
    /\ t_calls[LowThreshold].rows = t_calls[HighThreshold].rows
    /\ Len(t_calls[HighThreshold].rows) = 2
    /\ Clearing(t_calls[HighThreshold]) = {2}
    /\ Clearing(t_calls[LowThreshold]) = {1, 2}
    /\ t_calls[HighThreshold].rows[1].answer
          # t_calls[HighThreshold].rows[2].answer
    /\ t_calls[HighThreshold].answer = t_calls[HighThreshold].rows[2].answer
    /\ t_calls[LowThreshold].answer = t_calls[HighThreshold].answer

\* C23: a reply of cari_jawaban_teks that quotes the question has the
\* answer form exactly when the lookup returned a stored answer: a reply
\* carrying one of the messages of the lookup has the failure form.
C23_AnswerFormOnlyWhenFound ==
    h_reply.form \in {"answer", "failure"}
        => (h_reply.form = "answer" <=> h_reply.text \notin Messages)

=============================================================================
